---------------------------- MODULE Spec2Model ----------------------------
(***************************************************************************)
(* A model of the poem API (src/app.py) and of its configuration loader    *)
(* (src/config.py).                                                        *)
(*                                                                         *)
(* The database is the record db (Poem rows, Tag rows, the poem/tag        *)
(* association), the shared SQLAlchemy session is the variable session,    *)
(* and last is the request most recently served together with its          *)
(* response.  Every route of create_app is one action that runs the whole  *)
(* handler, the permission guard in front of it included.                  *)
(*                                                                         *)
(* models.py (Poem, Tag, format) and auth/auth_decorator.py                *)
(* (requires_auth, AuthError) are imported by app.py but are not part of   *)
(* the sources at hand; they are modelled from the specification's         *)
(* sections 4.2 and 4.3.                                                   *)
(***************************************************************************)
EXTENDS Integers, Sequences, FiniteSets, TLC

VARIABLES db, session, last, env, config

vars == <<db, session, last, env, config>>

-----------------------------------------------------------------------------
(* Bounds of the model *)

\* the most Tag rows the table holds (PATCH is not taken beyond it)
MaxTags == 2

\* the longest "tags" list of a PATCH body
MaxPatchTags == 2

\* the longest tail of a connection string after its scheme
MaxUrlLen == 3

-----------------------------------------------------------------------------
(* Small helpers *)

Range(s) == {s[i] : i \in 1..Len(s)}

SeqsUpTo(S, n) == UNION {[1..k -> S] : k \in 0..n}

\* the sequence s without its element at position i
RemoveAt(s, i) == SubSeq(s, 1, i - 1) \o SubSeq(s, i + 1, Len(s))

\* list.remove(x): drops the first occurrence of x
ListRemove(s, x) ==
    IF x \in Range(s)
    THEN RemoveAt(s, CHOOSE i \in 1..Len(s) : s[i] = x /\ \A j \in 1..(i - 1) : s[j] # x)
    ELSE s

-----------------------------------------------------------------------------
(* The data the requests range over *)

\* the Poem rows the database is seeded with (no route creates a poem)
PoemIds == {1, 2}

\* the identifiers requests name: the seeded rows and one no row ever has
RequestPoemIds == PoemIds \cup {3}

PoemNames == {"a", "b"}

Ratings == {1, 2}

TagNames == {"haiku", "sonnet"}

\* a tag name no Tag row ever carries
RequestTagNames == TagNames \cup {"ode"}

-----------------------------------------------------------------------------
(* Authorization: auth/auth_decorator.py, after the specification's 4.3 *)

Permissions == {"post:write-poem", "patch:poem", "delete:poem", "delete:tag-from-poem"}

\* what a request presents: its Authorization header and, behind it, the token
AuthInput(header, kid, token, has_permissions, permissions) ==
    [header |-> header, kid |-> kid, token |-> token,
     has_permissions |-> has_permissions, permissions |-> permissions]

AuthInputs ==
    {AuthInput(h, "unknown", "garbage", FALSE, {}) : h \in {"missing", "malformed", "no_bearer"}}
    \cup {AuthInput("bearer", "unknown", "valid", FALSE, {})}
    \cup {AuthInput("bearer", "known", t, FALSE, {}) : t \in {"expired", "bad_claims", "garbage"}}
    \cup {AuthInput("bearer", "known", "valid", FALSE, {})}
    \cup {AuthInput("bearer", "known", "valid", TRUE, ps) : ps \in {{}} \cup {{p} : p \in Permissions}}

AuthError(status_code, code) == [code |-> code, ok |-> FALSE, status |-> status_code]

AuthPassed == [code |-> "", ok |-> TRUE, status |-> 200]

get_token_auth_header(auth) ==
    CASE auth.header = "missing"   -> AuthError(401, "authorization_header_missing")
      [] auth.header = "malformed" -> AuthError(401, "invalid_header")
      [] auth.header = "no_bearer" -> AuthError(401, "invalid_header")
      [] OTHER                     -> AuthPassed

verify_decode_jwt(auth) ==
    CASE auth.kid # "known"        -> AuthError(400, "invalid_header")
      [] auth.token = "expired"    -> AuthError(401, "token_expired")
      [] auth.token = "bad_claims" -> AuthError(401, "invalid_claims")
      [] auth.token # "valid"      -> AuthError(400, "invalid_header")
      [] OTHER                     -> AuthPassed

check_permissions(permission, auth) ==
    IF ~auth.has_permissions THEN AuthError(400, "invalid_claims")
    ELSE IF permission \notin auth.permissions THEN AuthError(403, "unauthorized")
    ELSE AuthPassed

\* the guard: header, then token, then permission, stopping at the first failure
requires_auth(permission, auth) ==
    IF ~get_token_auth_header(auth).ok THEN get_token_auth_header(auth)
    ELSE IF ~verify_decode_jwt(auth).ok THEN verify_decode_jwt(auth)
    ELSE check_permissions(permission, auth)

\* a plausible slip: the decorators of patch_poem and delete_poem exchanged
RoutePermissionSwapped(route) ==
    CASE route = "post_write_poem"      -> "post:write-poem"
      [] route = "patch_poem"           -> "delete:poem"
      [] route = "delete_poem"          -> "patch:poem"
      [] route = "delete_tag_from_poem" -> "delete:tag-from-poem"

\* the permission each guarded route is decorated with
RoutePermission(route) ==
    CASE route = "post_write_poem"      -> "post:write-poem"
      [] route = "patch_poem"           -> "patch:poem"
      [] route = "delete_poem"          -> "delete:poem"
      [] route = "delete_tag_from_poem" -> "delete:tag-from-poem"

-----------------------------------------------------------------------------
(* The persisted data: models.py, after the specification's 3 and 4.2 *)

\* db.ids       the identifiers of the Poem rows
\* db.name      each Poem row's name        db.rating   each Poem row's rating
\* db.tags      the Tag rows in identifier order: db.tags[t] is the name of Tag t
\* db.poem_tag  each poem's tags relationship, a list of Tag identifiers
Database(ids, name, rating, tags, poem_tag) ==
    [ids |-> ids, name |-> name, rating |-> rating, tags |-> tags, poem_tag |-> poem_tag]

TagIds(d) == 1..Len(d.tags)

\* Query.get(ident): the row with that primary key, or None
query_get(d, poem_id) == poem_id \in d.ids

\* Query.first(): a LIMIT 1 with no ORDER BY; which of the matching rows comes
\* back is the database's choice.  The set of rows it may return; {0} is None.
first(matches) == IF matches = {} THEN {0} ELSE matches

\* Tag.query.filter_by(name=tag_name)
TagsNamed(d, tag_name) == {t \in TagIds(d) : d.tags[t] = tag_name}

\* Poem.query.filter_by(name=poem_name)
PoemsNamed(d, poem_name) == {p \in d.ids : d.name[p] = poem_name}

\* Poem.query.filter_by(rating=rating)
PoemsRated(d, rating) == {p \in d.ids : d.rating[p] = rating}

\* tag.poems: the inverse side of the relationship
tag_poems(d, tag) == {p \in d.ids : tag \in Range(d.poem_tag[p])}

\* poem.format(): identifier, name, rating and the names of the poem's tags
format(d, poem_id) ==
    [name |-> d.name[poem_id], rating |-> d.rating[poem_id],
     tags |-> [i \in 1..Len(d.poem_tag[poem_id]) |-> d.tags[d.poem_tag[poem_id][i]]],
     id |-> poem_id]

-----------------------------------------------------------------------------
(* Request bodies *)

Body(json, keys, name, rating, tags) ==
    [name |-> name, rating |-> rating, tags |-> tags, json |-> json, keys |-> keys]

\* request.get_json() of a request that carries no JSON document
NullBody == Body("null", {}, "", 0, <<>>)

NoBody == Body("none", {}, "", 0, <<>>)

PatchKeys == {"name", "rating", "tags", "foo"}

\* a body carries a value for exactly the keys it has
WellFormed(r) ==
    /\ ("name" \in r.keys) = (r.name # "")
    /\ ("rating" \in r.keys) = (r.rating # 0)
    /\ ("tags" \notin r.keys) => (r.tags = <<>>)

PatchBodies ==
    {NullBody} \cup
    {r \in {Body("object", keys, name, rating, tags) :
                keys \in SUBSET PatchKeys,
                name \in PoemNames \cup {""},
                rating \in Ratings \cup {0},
                tags \in SeqsUpTo(TagNames, MaxPatchTags)} : WellFormed(r)}

WriteKeys == {"topic", "adjectives", "foo"}

WriteBodies == {NullBody} \cup {Body("object", keys, "", 0, <<>>) : keys \in SUBSET WriteKeys}

\* where the persistence layer may raise inside a handler's try block
FailPoints == {"none", "stage", "commit", "format"}

-----------------------------------------------------------------------------
(* The session: db.session of models.py *)

\* db.session.commit(): what was staged becomes the persisted data
commit(d, staged) == staged

\* a plausible slip: no rollback, so what was staged is flushed and kept
rollback_keeps_staged(d, staged) == staged

\* db.session.rollback(): what was staged is discarded
rollback(d, staged) == d

\* a query begins a transaction on the shared session; close() releases it
query(s) == "active"

close(s) == "closed"

\* what a handler leaves behind: the data, the session, the response, and
\* the session calls it made
Outcome(d, s, status, code, calls, out) ==
    [db |-> d, session |-> s, code |-> code, status |-> status, calls |-> calls, out |-> out]

\* abort(status) before any session call
abort(d, s, status) == Outcome(d, s, status, "", <<>>, {})

-----------------------------------------------------------------------------
(* The routes of create_app *)

get_poems(d, s) ==
    Outcome(d, query(s), 200, "", <<>>, {format(d, p) : p \in d.ids})

\* tag is what Tag.query.filter_by(name=tag_name).first() returned
get_poems_by_tag(d, s, tag) ==
    IF tag = 0 THEN abort(d, query(s), 404)
    ELSE Outcome(d, query(s), 200, "", <<>>, {format(d, p) : p \in tag_poems(d, tag)})

get_poems_by_id(d, s, rating) ==
    IF PoemsRated(d, rating) = {} THEN abort(d, query(s), 404)
    ELSE Outcome(d, query(s), 200, "", <<>>, {format(d, p) : p \in PoemsRated(d, rating)})

get_poem_by_id(d, s, poem_id) ==
    IF ~query_get(d, poem_id) THEN abort(d, query(s), 404)
    ELSE Outcome(d, query(s), 200, "", <<>>, {format(d, poem_id)})

\* poem is what Poem.query.filter_by(name=poem_name).first() returned
get_poem_by_name(d, s, poem) ==
    IF poem = 0 THEN abort(d, query(s), 404)
    ELSE Outcome(d, query(s), 200, "", <<>>, {format(d, poem)})

\* a plausible slip: the operands of and exchanged, so that 'topic' is tested
write_poem_rejects_topic(r) == "topic" \notin r.keys

\* ('topic' and 'adjectives') is 'adjectives', and not binds looser than in:
\* the test is  not ('adjectives' in r)
write_poem_rejects(r) == "adjectives" \notin r.keys

\* r is None (the body is the JSON value null): the membership test raises,
\* which Flask answers with 500.
\* Otherwise the view returns True, which Flask cannot turn into a response:
\* that is answered with 500 too.
post_write_poem(d, s, r) ==
    IF r.json = "null" THEN abort(d, s, 500)
    ELSE IF write_poem_rejects(r) THEN abort(d, s, 422)
    ELSE Outcome(d, s, 500, "returned_true", <<>>, {})

allowed_keys == {"name", "rating", "tags"}

\* a plausible slip: any in place of all
patch_rejects_any(r) == r.json = "null" \/ r.keys = {} \/ r.keys \cap allowed_keys = {}

\* if not r or not all(map(lambda key: key in allowed_keys, r))
patch_rejects(r) == r.json = "null" \/ r.keys = {} \/ ~(r.keys \subseteq allowed_keys)

\* a plausible slip: a Tag row of the same name is looked up and reused
RECURSIVE append_names_reusing(_, _, _)
append_names_reusing(d, poem_id, names) ==
    IF names = <<>> THEN d
    ELSE LET same == TagsNamed(d, Head(names))
             tag == IF same = {} THEN Len(d.tags) + 1
                    ELSE CHOOSE t \in same : \A u \in same : t <= u
         IN  append_names_reusing(
                 [d EXCEPT !.tags = IF same = {} THEN @ \o <<Head(names)>> ELSE @,
                           !.poem_tag[poem_id] = @ \o <<tag>>],
                 poem_id, Tail(names))

append_tags_reusing(d, poem_id, r) ==
    IF "tags" \in r.keys THEN append_names_reusing(d, poem_id, r.tags) ELSE d

\* for tag_name in r['tags']: poem.tags.append(Tag(name=tag_name))
append_tags(d, poem_id, r) ==
    IF "tags" \in r.keys
    THEN [d EXCEPT !.tags = d.tags \o r.tags,
                   !.poem_tag[poem_id] =
                       d.poem_tag[poem_id] \o [i \in 1..Len(r.tags) |-> Len(d.tags) + i]]
    ELSE d

\* for key in r: setattr(poem, key, r[key])   (after r.pop('tags'))
set_attrs(d, poem_id, r) ==
    [d EXCEPT !.name[poem_id] = IF "name" \in r.keys THEN r.name ELSE @,
              !.rating[poem_id] = IF "rating" \in r.keys THEN r.rating ELSE @]

patch_poem(d, s, poem_id, r, fail) ==
    IF patch_rejects(r) THEN abort(d, s, 422)
    ELSE IF ~query_get(d, poem_id) THEN abort(d, query(s), 404)
    ELSE LET staged == set_attrs(append_tags(d, poem_id, r), poem_id, r)
         IN  CASE fail = "stage" ->
                    Outcome(rollback(d, staged), close(s), 500, "", <<"rollback", "close">>, {})
               [] fail = "commit" ->
                    Outcome(rollback(d, staged), close(s), 500, "",
                            <<"add", "commit", "rollback", "close">>, {})
               [] fail = "format" ->
                    Outcome(rollback(commit(d, staged), commit(d, staged)), close(s), 500, "",
                            <<"add", "commit", "rollback", "close">>, {})
               [] OTHER ->
                    Outcome(commit(d, staged), close(s), 200, "",
                            <<"add", "commit", "close">>, {format(commit(d, staged), poem_id)})

\* db.session.delete(poem): the row goes, and with it its rows of the
\* association table; the Tag rows stay
session_delete(d, poem_id) ==
    [d EXCEPT !.ids = d.ids \ {poem_id},
              !.name[poem_id] = "",
              !.rating[poem_id] = 0,
              !.poem_tag[poem_id] = <<>>]

delete_poem(d, s, poem_id, fail) ==
    IF ~query_get(d, poem_id) THEN abort(d, query(s), 404)
    ELSE LET staged == session_delete(d, poem_id)
         IN  CASE fail = "stage" ->
                    Outcome(rollback(d, staged), close(s), 500, "", <<"rollback", "close">>, {})
               [] fail = "commit" ->
                    Outcome(rollback(d, staged), close(s), 500, "",
                            <<"delete", "commit", "rollback", "close">>, {})
               [] OTHER ->
                    Outcome(commit(d, staged), close(s), 200, "",
                            <<"delete", "commit", "close">>, {})

\* poem.tags.remove(tag)
tags_remove(d, poem_id, tag) ==
    [d EXCEPT !.poem_tag[poem_id] = ListRemove(d.poem_tag[poem_id], tag)]

\* if not (poem and tag) or poem not in tag.poems
tag_not_on_poem(d, poem_id, tag) ==
    ~(query_get(d, poem_id) /\ tag # 0) \/ poem_id \notin tag_poems(d, tag)

\* tag is what Tag.query.filter_by(name=tag_name).first() returned
delete_tag_from_poem(d, s, poem_id, tag, fail) ==
    IF tag_not_on_poem(d, poem_id, tag) THEN abort(d, query(s), 404)
    ELSE LET staged == tags_remove(d, poem_id, tag)
         IN  CASE fail = "stage" ->
                    Outcome(rollback(d, staged), close(s), 500, "", <<"rollback", "close">>, {})
               [] fail = "commit" ->
                    Outcome(rollback(d, staged), close(s), 500, "",
                            <<"add", "commit", "rollback", "close">>, {})
               [] fail = "format" ->
                    Outcome(rollback(commit(d, staged), commit(d, staged)), close(s), 500, "",
                            <<"add", "commit", "rollback", "close">>, {})
               [] OTHER ->
                    Outcome(commit(d, staged), close(s), 200, "",
                            <<"add", "commit", "close">>, {format(commit(d, staged), poem_id)})

-----------------------------------------------------------------------------
(* The configuration loader: src/config.py *)

\* strings are sequences of characters
UrlChars == {"h", ":", "/"}

Postgres == <<"p", "o", "s", "t", "g", "r", "e", "s">>

Postgresql == Postgres \o <<"q", "l">>

\* an environment variable: unset, or set to a string
Unset == [set |-> FALSE, value |-> <<>>]

Set(str) == [set |-> TRUE, value |-> str]

\* the values DATABASE_URL is drawn from: short strings, and postgres:// URLs
DatabaseUrls ==
    SeqsUpTo(UrlChars, MaxUrlLen)
    \cup {Postgres \o <<":", "/", "/">> \o tail : tail \in SeqsUpTo(UrlChars, MaxUrlLen)}

\* str.find(old): the first position old occurs at, 0 when it does not occur
str_find(str, old) ==
    LET hits == {i \in 1..(Len(str) - Len(old) + 1) : SubSeq(str, i, i + Len(old) - 1) = old}
    IN  IF hits = {} THEN 0 ELSE CHOOSE i \in hits : \A j \in hits : i <= j

\* a plausible slip: the count left out, so that every occurrence is replaced
RECURSIVE str_replace_all(_, _, _)
str_replace_all(str, old, new) ==
    LET i == str_find(str, old)
    IN  IF i = 0 THEN str
        ELSE SubSeq(str, 1, i - 1) \o new
             \o str_replace_all(SubSeq(str, i + Len(old), Len(str)), old, new)

\* str.replace(old, new, 1)
str_replace_first(str, old, new) ==
    LET i == str_find(str, old)
    IN  IF i = 0 THEN str
        ELSE SubSeq(str, 1, i - 1) \o new \o SubSeq(str, i + Len(old), Len(str))

\* class Config: the try and its except
Config_SQLALCHEMY_DATABASE_URI(e) ==
    IF e.DATABASE_URL.set
    THEN Set(str_replace_first(e.DATABASE_URL.value, <<":", "/", "/">>, <<"q", "l", ":", "/", "/">>))
    ELSE e.LOCAL_DATABASE_URL

\* class TestConfig
TestConfig_SQLALCHEMY_DATABASE_URI(e) == e.LOCAL_TEST_DATABASE_URI

NotLoaded == [loaded |-> FALSE, Config |-> Unset, TestConfig |-> Unset]

\* the module is imported: both class bodies run
LoadConfig ==
    /\ ~config.loaded
    /\ config' = [loaded |-> TRUE,
                  Config |-> Config_SQLALCHEMY_DATABASE_URI(env),
                  TestConfig |-> TestConfig_SQLALCHEMY_DATABASE_URI(env)]
    /\ UNCHANGED <<db, session, last, env>>

-----------------------------------------------------------------------------
(* Requests and responses *)

NoAuth == AuthInput("none", "unknown", "garbage", FALSE, {})

\* a verified token carrying exactly one permission
Authorized(permission) == AuthInput("bearer", "known", "valid", TRUE, {permission})

\* the request served last (its arguments; 0 and "" where it has none), what
\* first() returned to it (0: None, or no such query), and its response;
\* entered says whether the handler body ran
Last(route, auth, poem_id, name, rating, body, fail, row, entered, o) ==
    [code |-> o.code, status |-> o.status, auth |-> auth, route |-> route,
     name |-> name, rating |-> rating, poem_id |-> poem_id,
     calls |-> o.calls, out |-> o.out, fail |-> fail, body |-> body,
     row |-> row, entered |-> entered]

\* the handler body ran and left outcome o
Serve(route, auth, poem_id, name, rating, body, fail, row, o) ==
    /\ db' = o.db
    /\ session' = o.session
    /\ last' = Last(route, auth, poem_id, name, rating, body, fail, row, TRUE, o)
    /\ UNCHANGED <<env, config>>

\* handle_auth_error: the guard raised g, the handler body never ran
Reject(route, auth, g) ==
    /\ last' = Last(route, auth, 0, "", 0, NoBody, "none", 0, FALSE,
                    Outcome(db, session, g.status, g.code, <<>>, {}))
    /\ UNCHANGED <<db, session, env, config>>

GetPoems == Serve("get_poems", NoAuth, 0, "", 0, NoBody, "none", 0, get_poems(db, session))

GetPoemsByTag ==
    \E tag_name \in RequestTagNames :
        \E tag \in first(TagsNamed(db, tag_name)) :
            Serve("get_poems_by_tag", NoAuth, 0, tag_name, 0, NoBody, "none", tag,
                  get_poems_by_tag(db, session, tag))

GetPoemsById ==
    \E rating \in Ratings :
        Serve("get_poems_by_id", NoAuth, 0, "", rating, NoBody, "none", 0,
              get_poems_by_id(db, session, rating))

GetPoemById ==
    \E poem_id \in RequestPoemIds :
        Serve("get_poem_by_id", NoAuth, poem_id, "", 0, NoBody, "none", 0,
              get_poem_by_id(db, session, poem_id))

GetPoemByName ==
    \E poem_name \in PoemNames :
        \E poem \in first(PoemsNamed(db, poem_name)) :
            Serve("get_poem_by_name", NoAuth, 0, poem_name, 0, NoBody, "none", poem,
                  get_poem_by_name(db, session, poem))

\* The guarded routes take the sets their inputs are drawn from.

PostWritePoem(auths, bodies) ==
    \E auth \in auths :
        LET g == requires_auth(RoutePermission("post_write_poem"), auth)
        IN  IF ~g.ok THEN Reject("post_write_poem", auth, g)
            ELSE \E r \in bodies :
                    Serve("post_write_poem", auth, 0, "", 0, r, "none", 0,
                          post_write_poem(db, session, r))

\* the try block is reached: only then can the persistence layer fail
PatchReachesTry(d, poem_id, r) == ~patch_rejects(r) /\ query_get(d, poem_id)

PatchPoem(auths, bodies, fails) ==
    \E auth \in auths :
        LET g == requires_auth(RoutePermission("patch_poem"), auth)
        IN  IF ~g.ok THEN Reject("patch_poem", auth, g)
            ELSE \E poem_id \in RequestPoemIds, r \in bodies, fail \in fails :
                    /\ PatchReachesTry(db, poem_id, r) => Len(db.tags) + Len(r.tags) <= MaxTags
                    /\ fail # "none" => PatchReachesTry(db, poem_id, r)
                    /\ Serve("patch_poem", auth, poem_id, "", 0, r, fail, 0,
                             patch_poem(db, session, poem_id, r, fail))

DeletePoem(auths, fails) ==
    \E auth \in auths :
        LET g == requires_auth(RoutePermission("delete_poem"), auth)
        IN  IF ~g.ok THEN Reject("delete_poem", auth, g)
            ELSE \E poem_id \in RequestPoemIds, fail \in fails \ {"format"} :
                    /\ fail # "none" => query_get(db, poem_id)
                    /\ Serve("delete_poem", auth, poem_id, "", 0, NoBody, fail, 0,
                             delete_poem(db, session, poem_id, fail))

DeleteTagFromPoem(auths, fails) ==
    \E auth \in auths :
        LET g == requires_auth(RoutePermission("delete_tag_from_poem"), auth)
        IN  IF ~g.ok THEN Reject("delete_tag_from_poem", auth, g)
            ELSE \E poem_id \in RequestPoemIds, tag_name \in RequestTagNames, fail \in fails :
                    \E tag \in first(TagsNamed(db, tag_name)) :
                        /\ fail # "none" => ~tag_not_on_poem(db, poem_id, tag)
                        /\ Serve("delete_tag_from_poem", auth, poem_id, tag_name, 0, NoBody,
                                 fail, tag, delete_tag_from_poem(db, session, poem_id, tag, fail))

-----------------------------------------------------------------------------
(* The specifications *)

\* the seeded rows: two poems with distinct names, and either no Tag row or
\* one Tag row that each poem may carry
SeedDatabase(tags, poem_tag) ==
    Database(PoemIds, [p \in PoemIds |-> IF p = 1 THEN "a" ELSE "b"], [p \in PoemIds |-> 1],
             tags, poem_tag)

SeedDatabases ==
    {SeedDatabase(<<>>, [p \in PoemIds |-> <<>>])}
    \cup {SeedDatabase(<<"haiku">>, poem_tag) : poem_tag \in [PoemIds -> {<<>>, <<1>>}]}

NoRequest ==
    Last("none", NoAuth, 0, "", 0, NoBody, "none", 0, FALSE,
         Outcome(<<>>, "idle", 0, "", <<>>, {}))

DefaultEnv ==
    [DATABASE_URL |-> Unset, LOCAL_DATABASE_URL |-> Unset, LOCAL_TEST_DATABASE_URI |-> Unset]

\* the API is up: the configuration was loaded, the database is seeded
Init ==
    /\ db \in SeedDatabases
    /\ session = "idle"
    /\ last = NoRequest
    /\ env = DefaultEnv
    /\ config = [loaded |-> TRUE,
                 Config |-> Config_SQLALCHEMY_DATABASE_URI(DefaultEnv),
                 TestConfig |-> TestConfig_SQLALCHEMY_DATABASE_URI(DefaultEnv)]

\* PATCH bodies that only attach tags
TagBodies == {r \in PatchBodies : r.keys = {"tags"}}

\* PATCH bodies that attach no tag
FieldBodies == {r \in PatchBodies : "tags" \notin r.keys}

\* Spec: authorized clients attach and detach tags and delete poems
Next ==
    \/ GetPoemsByTag
    \/ PatchPoem({Authorized("patch:poem")}, TagBodies, {"none"})
    \/ DeletePoem({Authorized("delete:poem")}, {"none"})
    \/ DeleteTagFromPoem({Authorized("delete:tag-from-poem")}, {"none"})

Spec == Init /\ [][Next]_vars

\* SpecFields: authorized clients replace the fields of poems and delete
\* poems, and anyone reads them
NextFields ==
    \/ GetPoems
    \/ GetPoemsById
    \/ GetPoemById
    \/ GetPoemByName
    \/ PatchPoem({Authorized("patch:poem")}, FieldBodies, {"none"})
    \/ DeletePoem({Authorized("delete:poem")}, {"none"})

SpecFields == Init /\ [][NextFields]_vars

\* one PATCH body for every set of keys
KeyBodies ==
    {NullBody} \cup
    {Body("object", keys,
          IF "name" \in keys THEN "b" ELSE "",
          IF "rating" \in keys THEN 2 ELSE 0,
          IF "tags" \in keys THEN <<"haiku">> ELSE <<>>) : keys \in SUBSET PatchKeys}

\* SpecPatch: authorized clients send PATCH bodies with every set of keys,
\* delete poems and detach tags, and the persistence layer may fail
NextPatch ==
    \/ PatchPoem({Authorized("patch:poem")}, KeyBodies, FailPoints)
    \/ DeletePoem({Authorized("delete:poem")}, FailPoints)
    \/ DeleteTagFromPoem({Authorized("delete:tag-from-poem")}, FailPoints)

SpecPatch == Init /\ [][NextPatch]_vars

\* SpecAuth: clients present every kind of Authorization header and token
NextAuth ==
    \/ PostWritePoem(AuthInputs, WriteBodies)
    \/ PatchPoem(AuthInputs, {Body("object", {"name"}, "b", 0, <<>>)}, {"none"})
    \/ DeletePoem(AuthInputs, {"none"})
    \/ DeleteTagFromPoem(AuthInputs, {"none"})

SpecAuth == Init /\ [][NextAuth]_vars

\* SpecConfig: the configuration loader, run once over an environment
InitConfig ==
    /\ env \in [DATABASE_URL : {Unset} \cup {Set(u) : u \in DatabaseUrls},
                LOCAL_DATABASE_URL : {Unset, Set(<<"l">>)},
                LOCAL_TEST_DATABASE_URI : {Unset, Set(<<"t">>)}]
    /\ config = NotLoaded
    /\ db = SeedDatabase(<<>>, [p \in PoemIds |-> <<>>])
    /\ session = "idle"
    /\ last = NoRequest

NextConfig == LoadConfig

SpecConfig == InitConfig /\ [][NextConfig]_vars

-----------------------------------------------------------------------------
(* The claims *)

GuardedRoutes == {"post_write_poem", "patch_poem", "delete_poem", "delete_tag_from_poem"}

\* the permission the route table requires of each guarded route
RequiredPermission(route) ==
    CASE route = "post_write_poem"      -> "post:write-poem"
      [] route = "patch_poem"           -> "patch:poem"
      [] route = "delete_poem"          -> "delete:poem"
      [] route = "delete_tag_from_poem" -> "delete:tag-from-poem"

\* the request just served was refused by the guard with this error: the
\* handler body did not run and no row changed
Refused(status, code) ==
    /\ last'.status = status
    /\ last'.code = code
    /\ ~last'.entered
    /\ db' = db
    /\ session' = session

\* a verified token that does not carry the permission
LacksPermission(auth, permission) ==
    /\ auth.header = "bearer" /\ auth.kid = "known" /\ auth.token = "valid"
    /\ auth.has_permissions
    /\ permission \notin auth.permissions

\* C1: on each of the four guarded routes a request without an Authorization
\* header is answered 401 authorization_header_missing, one with an expired
\* token 401 token_expired, one whose valid token lacks the route's permission
\* 403 unauthorized; in all three cases the handler body does not run and no
\* poem, tag or association changes.
C1_GuardBeforeHandler ==
    [][last'.route \in GuardedRoutes =>
        /\ last'.auth.header = "missing" => Refused(401, "authorization_header_missing")
        /\ (last'.auth.header = "bearer" /\ last'.auth.kid = "known"
                /\ last'.auth.token = "expired") => Refused(401, "token_expired")
        /\ LacksPermission(last'.auth, RequiredPermission(last'.route))
                => Refused(403, "unauthorized")]_vars

\* a DELETE /poem/<id> presenting a valid token that carries only patch:poem
\* was refused with 403 unauthorized
C1_Witness ==
    /\ last.route = "delete_poem"
    /\ last.auth = Authorized("patch:poem")
    /\ last.status = 403 /\ last.code = "unauthorized" /\ ~last.entered

\* C4 as claimed: an authorized POST /write-poem is never answered 422,
\* whatever keys its body has, changes no row and always signals success.
C4_NeverRejects ==
    [][(last'.route = "post_write_poem" /\ last'.entered /\ last'.body.json = "object") =>
        /\ last'.status # 422
        /\ last'.code = "returned_true"
        /\ db' = db]_vars

\* C4, amended: an authorized POST /write-poem with a JSON object is answered
\* 422 exactly when the object has no adjectives key (a missing topic is never
\* rejected); otherwise the handler returns True; no row changes in any case.
C4_RejectsMissingAdjectives ==
    [][(last'.route = "post_write_poem" /\ last'.entered) =>
        /\ db' = db
        /\ last'.body.json = "object" =>
            /\ (last'.status = 422) = ("adjectives" \notin last'.body.keys)
            /\ (last'.code = "returned_true") = ("adjectives" \in last'.body.keys)]_vars

\* a POST /write-poem whose body has topic but no adjectives was answered 422
C4_Witness ==
    /\ last.route = "post_write_poem" /\ last.entered
    /\ last.body.keys = {"topic"}
    /\ last.status = 422

\* the poems that carry a tag of this name
PoemsTagged(d, tag_name) ==
    {p \in d.ids : \E i \in 1..Len(d.poem_tag[p]) : d.tags[d.poem_tag[p][i]] = tag_name}

\* the identifiers of the poems a response lists
Ids(out) == {f.id : f \in out}

\* C2 as claimed: GET /poems/<tag_name>, for a name some Tag row carries,
\* returns exactly the poems that have a tag of that name.
C2_TagFilterExact ==
    (last.route = "get_poems_by_tag" /\ TagsNamed(db, last.name) # {}) =>
        /\ last.status = 200
        /\ Ids(last.out) = PoemsTagged(db, last.name)

MutationRoutes == {"patch_poem", "delete_poem", "delete_tag_from_poem"}

\* C3: when the persistence layer fails while a PATCH or DELETE stages or
\* commits, the handler rolls back, answers 500, leaves the target poem (and
\* every other row) as it was, and has closed the session; the session is
\* closed on every exit from the try block, commit or no commit.
C3_FailureIsolated ==
    [][(last'.route \in MutationRoutes /\ last'.entered) =>
        /\ last'.fail \in {"stage", "commit"} =>
            /\ last'.status = 500
            /\ "rollback" \in Range(last'.calls)
            /\ query_get(db', last'.poem_id)
            /\ format(db', last'.poem_id) = format(db, last'.poem_id)
            /\ db' = db
            /\ session' = "closed"
        /\ last'.status \in {200, 500} =>
            /\ last'.calls # <<>>
            /\ last'.calls[Len(last'.calls)] = "close"
            /\ session' = "closed"]_vars

\* a PATCH that renames poem 1 failed at commit: 500, the poem still has its
\* old name, the session is closed
C3_Witness ==
    /\ last.route = "patch_poem" /\ last.fail = "commit"
    /\ last.poem_id = 1 /\ last.body.name = "b"
    /\ last.status = 500
    /\ db.name[1] = "a"
    /\ session = "closed"

\* C5 as claimed: for any poem, GET /poem/<poem_id> and GET /poem/<poem_name>
\* with its name return the same formatted poem, with one tag name per
\* associated tag.
C5_ByIdEqualsByName ==
    (last.route = "get_poem_by_name" /\ last.status = 200) =>
        \A p \in PoemsNamed(db, last.name) :
            /\ last.out = get_poem_by_id(db, session, p).out
            /\ \A f \in last.out : Len(f.tags) = Len(db.poem_tag[p])

\* C6: a successful PATCH with tags [t1..tk] adds exactly k Tag rows, named
\* t1..tk in order, and appends them, in order, to the poem's tags; no Tag
\* row that existed is reused or changed, no prior tag of the poem is removed,
\* no other poem's tags change.  On a poem without tags, ["haiku"] leaves
\* exactly one tag haiku; repeated, two associations both named haiku.
C6_PatchAppendsNewTags ==
    [][(last'.route = "patch_poem" /\ last'.status = 200 /\ "tags" \in last'.body.keys) =>
        LET p == last'.poem_id
            names == last'.body.tags
            before == db.poem_tag[p]
            after == db'.poem_tag[p]
        IN  /\ Len(db'.tags) = Len(db.tags) + Len(names)
            /\ \A t \in TagIds(db) : db'.tags[t] = db.tags[t]
            /\ Len(after) = Len(before) + Len(names)
            /\ \A i \in 1..Len(before) : after[i] = before[i]
            /\ \A i \in 1..Len(names) :
                /\ after[Len(before) + i] = Len(db.tags) + i
                /\ db'.tags[after[Len(before) + i]] = names[i]
            /\ \A q \in db.ids \ {p} : db'.poem_tag[q] = db.poem_tag[q]
            /\ format(db', p).tags = format(db, p).tags \o names
            /\ (before = <<>> /\ names = <<"haiku">>) => format(db', p).tags = <<"haiku">>
            /\ (format(db, p).tags = <<"haiku">> /\ names = <<"haiku">>) =>
                /\ format(db', p).tags = <<"haiku", "haiku">>
                /\ after[1] # after[2]]_vars

\* the same PATCH {"tags": ["haiku"]} served twice on a poem that had no tag:
\* the poem has two tags, distinct Tag rows, both named haiku
C6_Witness ==
    /\ last.route = "patch_poem" /\ last.status = 200
    /\ last.body.tags = <<"haiku">>
    /\ format(db, last.poem_id).tags = <<"haiku", "haiku">>
    /\ db.poem_tag[last.poem_id][1] # db.poem_tag[last.poem_id][2]

\* C7 as claimed: a successful DELETE /poem/<id>/<tag_name> removes only that
\* association: the Tag row is still there, every other association is as it
\* was, and GET /poems/<tag_name> answers 200 with every other poem that
\* carries the tag.
C7_DetachKeepsOthersListed ==
    [][(last'.route = "delete_tag_from_poem" /\ last'.status = 200) =>
        LET p == last'.poem_id
        IN  /\ db'.tags = db.tags
            /\ db'.poem_tag[p] = ListRemove(db.poem_tag[p], last'.row)
            /\ \A q \in db.ids \ {p} : db'.poem_tag[q] = db.poem_tag[q]
            /\ \A tag \in first(TagsNamed(db', last'.name)) :
                /\ get_poems_by_tag(db', session', tag).status = 200
                /\ PoemsTagged(db', last'.name) \ {p}
                       \subseteq Ids(get_poems_by_tag(db', session', tag).out)]_vars

\* C8 as claimed: DELETE /poem/<id>/<tag_name> answers 404, changing nothing,
\* when the poem is missing, no tag has the name, or the tag is not on the
\* poem; and does not answer 404 when the poem exists and carries a tag of
\* that name.
C8_NotFoundIffNotTagged ==
    [][(last'.route = "delete_tag_from_poem" /\ last'.entered) =>
        /\ last'.poem_id \notin PoemsTagged(db, last'.name) =>
            (last'.status = 404 /\ db' = db)
        /\ last'.poem_id \in PoemsTagged(db, last'.name) => last'.status # 404]_vars

\* a body the route table accepts: present, not empty, only allowed keys
AcceptableBody(r) ==
    r.json = "object" /\ r.keys # {} /\ r.keys \subseteq {"name", "rating", "tags"}

\* C9: an authorized PATCH whose body is empty or has a key other than name,
\* rating, tags is answered 422 whether or not the poem exists, and changes
\* nothing; 404 is the answer exactly when the body is acceptable and the
\* poem is missing, and it changes nothing either.
C9_BodyCheckedBeforeLookup ==
    [][(last'.route = "patch_poem" /\ last'.entered) =>
        /\ ~AcceptableBody(last'.body) => (last'.status = 422 /\ db' = db)
        /\ (last'.status = 404) =
               (AcceptableBody(last'.body) /\ last'.poem_id \notin db.ids)
        /\ last'.status = 404 => db' = db]_vars

\* a PATCH with a disallowed key next to an allowed one, on a poem that does
\* not exist, was answered 422
C9_Witness ==
    /\ last.route = "patch_poem" /\ last.entered
    /\ last.body.keys = {"name", "foo"}
    /\ last.poem_id \notin db.ids
    /\ last.status = 422

Scheme == <<":", "/", "/">>

\* v is u with its first "://" (if it has one) replaced by "ql://"
FirstSchemeRewritten(u, v) ==
    LET at(i) == i + 2 <= Len(u) /\ SubSeq(u, i, i + 2) = Scheme
    IN  IF \A i \in 1..Len(u) : ~at(i) THEN v = u
        ELSE \E i \in 1..Len(u) :
                /\ at(i)
                /\ \A j \in 1..(i - 1) : ~at(j)
                /\ Len(v) = Len(u) + 2
                /\ SubSeq(v, 1, i - 1) = SubSeq(u, 1, i - 1)
                /\ SubSeq(v, i, i + 4) = <<"q", "l">> \o Scheme
                /\ SubSeq(v, i + 5, Len(v)) = SubSeq(u, i + 3, Len(u))

\* C10: with DATABASE_URL set, the default profile resolves to it with only
\* the first "://" replaced by "ql://" (postgres://x becomes postgresql://x);
\* with DATABASE_URL unset, to LOCAL_DATABASE_URL unchanged; the test profile
\* resolves to LOCAL_TEST_DATABASE_URI unchanged.
C10_DatabaseUrl ==
    config.loaded =>
        /\ env.DATABASE_URL.set =>
            /\ config.Config.set
            /\ FirstSchemeRewritten(env.DATABASE_URL.value, config.Config.value)
            /\ (Len(env.DATABASE_URL.value) >= 11
                    /\ SubSeq(env.DATABASE_URL.value, 1, 11) = Postgres \o Scheme) =>
                config.Config.value =
                    Postgresql \o Scheme
                    \o SubSeq(env.DATABASE_URL.value, 12, Len(env.DATABASE_URL.value))
        /\ ~env.DATABASE_URL.set => config.Config = env.LOCAL_DATABASE_URL
        /\ config.TestConfig = env.LOCAL_TEST_DATABASE_URI

\* postgres://:// was loaded: only its first "://" was rewritten
C10_Witness ==
    /\ config.loaded
    /\ env.DATABASE_URL = Set(Postgres \o Scheme \o Scheme)
    /\ config.Config = Set(Postgresql \o Scheme \o Scheme)

=============================================================================
